---- MODULE Spec2Model ----
(***************************************************************************)
(* A model of pyknot2/visualise.py: plot_line and its three toolkit        *)
(* adapters, plot_projection and plot_cell.                                *)
(*                                                                         *)
(* The toolkits (mayavi, matplotlib, vispy) are external; they are         *)
(* modelled by the state they hold (tk) and by whether they can be         *)
(* imported or constructed in the running environment (env).               *)
(*                                                                         *)
(* Floating point numbers are modelled exactly, as fractions <<num, den>>. *)
(***************************************************************************)
EXTENDS Integers, Sequences, FiniteSets, TLC

VARIABLES
    pc,            \* position of the running call
    env,           \* which toolkits can be imported / constructed
    tk,            \* the toolkits' own state: scene, figures, canvases
    err,           \* the exception the call raised, if any
    points,        \* plot_line / plot_projection / plot_line_vispy: points
    mode,          \* plot_line: the local variable mode
    clf,           \* plot_line / plot_cell: the clf argument
    kwargs,        \* the call's mode and color arguments, as they were passed
    probed,        \* plot_line: toolkits whose import was attempted, in order
    adapterCalls,  \* plot_line: adapter functions that were entered, in order
    lines,         \* plot_cell: the curves, each a sequence of segments
    colours,       \* plot_cell: the local variable colours (after shuffle)
    hues,          \* plot_cell: the local variable hues
    ci,            \* plot_cell: index of the curve the loop is at
    si,            \* plot_cell: index of the segment the loop is at
    lineCalls,     \* plot_cell: the plot_line calls made, in order
    boundary,      \* plot_cell: the local variable boundary
    crossings,     \* plot_projection: the crossings argument
    opts,          \* plot_projection: mark_start, show, fig_ax arguments
    ret            \* the value returned by the call

vars == <<pc, env, tk, err, points, mode, clf, kwargs, probed, adapterCalls,
          lines, colours, hues, ci, si, lineCalls, boundary, crossings, opts,
          ret>>

(***************************************************************************)
(* Bounds of the model                                                     *)
(***************************************************************************)
MaxCoord == 1
MaxPts == 2
MaxCurves == 3
MaxSegs == 2
MaxBoundary == 2
MaxProjPts == 2
MaxCross == 2

(***************************************************************************)
(* Generic helpers                                                         *)
(***************************************************************************)
Range(s) == {s[i] : i \in DOMAIN s}

SeqsUpTo(S, lo, hi) == UNION {[1..k -> S] : k \in lo..hi}

SetMax(S) == CHOOSE x \in S : \A y \in S : y <= x

SetMin(S) == CHOOSE x \in S : \A y \in S : x <= y

Abs(x) == IF x < 0 THEN -x ELSE x

None == [kind |-> "None"]

NoColor == <<>>

NoError == [type |-> "none", msg |-> <<>>]

(***************************************************************************)
(* Library functions the module imports, computed on fractions             *)
(***************************************************************************)
\* numpy.linspace(start, stop, num) for integer start and stop: num evenly
\* spaced samples, both ends included; a single sample is start itself.
linspace(start, stop, num) ==
    IF num = 1 THEN << <<start, 1>> >>
    ELSE [j \in 1..num |->
            <<start * (num - 1) + (j - 1) * (stop - start), num - 1>>]

\* An array slice a[:-1]: everything but the last element.
DropLast(a) == IF Len(a) = 0 THEN a ELSE SubSeq(a, 1, Len(a) - 1)

\* colorsys.hsv_to_rgb(h, s, v) for a fraction h = <<a, b>> and integer s, v.
hsv_to_rgb(h, s, v) ==
    LET d == h[2]
        i == (6 * h[1]) \div d
        fn == (6 * h[1]) % d
        vv == <<v * d, d>>
        p == <<v * (1 - s) * d, d>>
        q == <<v * (d - s * fn), d>>
        t == <<v * (d - s * (d - fn)), d>>
        k == i % 6
    IN  IF s = 0 THEN <<vv, vv, vv>>
        ELSE CASE k = 0 -> <<vv, t, p>>
               [] k = 1 -> <<q, vv, p>>
               [] k = 2 -> <<p, vv, t>>
               [] k = 3 -> <<p, q, vv>>
               [] k = 4 -> <<t, p, vv>>
               [] k = 5 -> <<vv, p, q>>

\* numpy.max(points, axis=0): the largest value of each of the 3 columns.
ColumnMax(pts) == [k \in 1..3 |-> SetMax({pts[i][k] : i \in DOMAIN pts})]

\* numpy.max(numpy.max(points, axis=0)).
MaxOfColumnMax(pts) == SetMax(Range(ColumnMax(pts)))

RECURSIVE SumColumn(_, _, _)
SumColumn(pts, k, i) ==
    IF i = 0 THEN 0 ELSE pts[i][k] + SumColumn(pts, k, i - 1)

\* -1 * numpy.average(points, axis=0), as three fractions over len(points).
NegAverage(pts) ==
    [k \in 1..3 |-> <<-SumColumn(pts, k, Len(pts)), Len(pts)>>]

(***************************************************************************)
(* The toolkit adapters.  Each takes the toolkits' state and returns the   *)
(* new state and the exception raised (NoError when it returns).           *)
(***************************************************************************)
ModuleNotFound(name) == [type |-> "ImportError", msg |-> <<"No", "module", "named", name>>]

UnknownProjection == [type |-> "ValueError", msg |-> <<"Unknown", "projection", "3d">>]

\* mayavi.mlab.clf(): empties the current scene.
may_clf(t) == [t EXCEPT !.may = <<>>]

plot_line_mayavi(t, e, pts, doClf, kw) ==
    IF e.mayavi # "ok"
    THEN [tk |-> t, err |-> ModuleNotFound("mayavi")]
    ELSE LET t1 == IF doClf THEN may_clf(t) ELSE t
             obj == [points |-> pts,
                     mus |-> linspace(0, 1, Len(pts)),
                     colormap |-> "hsv",
                     tube_radius |-> 1,
                     color |-> kw.color]
         IN  [tk |-> [t1 EXCEPT !.may = Append(@, obj)], err |-> NoError]

\* A new matplotlib figure, as plt.figure() registers it.
NewFigure == [axes3d |-> FALSE, lines |-> <<>>, shown |-> FALSE]

plot_line_matplotlib(t, e, pts, doClf, kw) ==
    CASE e.matplotlib = "ImportError" ->
            [tk |-> t, err |-> ModuleNotFound("matplotlib")]
      [] e.matplotlib = "ValueError" ->
            [tk |-> [t EXCEPT !.mpl = Append(@, NewFigure)],
             err |-> UnknownProjection]
      [] OTHER ->
            [tk |-> [t EXCEPT !.mpl = Append(@,
                        [axes3d |-> TRUE, lines |-> <<pts>>, shown |-> TRUE])],
             err |-> NoError]

\* The distance handed to set_camera: 1.5 * n.max(n.max(points, axis=0)).
CameraDistance(pts) == <<3 * MaxOfColumnMax(pts), 2>>

plot_line_vispy(t, e, pts, doClf, kw) ==
    IF e.vispy # "ok"
    THEN [tk |-> t, err |-> ModuleNotFound("vispy")]
    ELSE LET cs == linspace(0, 1, Len(pts))
             canvas == [points |-> pts,
                        colors |-> [j \in DOMAIN cs |-> hsv_to_rgb(cs[j], 1, 1)],
                        camera |-> "turntable",
                        distance |-> CameraDistance(pts),
                        translate |-> NegAverage(pts),
                        shown |-> TRUE]
         IN  [tk |-> [t EXCEPT !.vispy = Append(@, canvas)], err |-> NoError]

(***************************************************************************)
(* plot_line.  A frame is the part of the state plot_line works on.        *)
(***************************************************************************)
Frame(m, t) ==
    [mode |-> m, tk |-> t, probed |-> <<>>, calls |-> <<>>, err |-> NoError]

\* Lines 33-38: import mayavi.mlab.
Probe_mayavi(f, e) ==
    IF f.mode # "auto" THEN f
    ELSE [f EXCEPT !.probed = Append(@, "mayavi"),
                   !.mode = IF e.mayavi = "ok" THEN "mayavi" ELSE @]

\* Lines 39-47: import matplotlib, make a figure and a 3D subplot of it.
Probe_matplotlib(f, e) ==
    IF f.mode # "auto" THEN f
    ELSE CASE e.matplotlib = "ImportError" ->
                [f EXCEPT !.probed = Append(@, "matplotlib")]
           [] e.matplotlib = "ValueError" ->
                [f EXCEPT !.probed = Append(@, "matplotlib"),
                          !.tk.mpl = Append(@, NewFigure)]
           [] OTHER ->
                [f EXCEPT !.probed = Append(@, "matplotlib"),
                          !.tk.mpl = Append(@, [NewFigure EXCEPT !.axes3d = TRUE]),
                          !.mode = "matplotlib"]

Probe_vispy_unguarded(f, e) ==
    [f EXCEPT !.probed = Append(@, "vispy"),
              !.mode = IF e.vispy = "ok" THEN "vispy" ELSE @]

\* Lines 48-53: import vispy.
Probe_vispy(f, e) ==
    IF f.mode # "auto" THEN f
    ELSE [f EXCEPT !.probed = Append(@, "vispy"),
                   !.mode = IF e.vispy = "ok" THEN "vispy" ELSE @]

Raise_no_toolkit_missing(f) == f

\* Lines 54-56: no toolkit could be imported.
Raise_no_toolkit(f) ==
    IF f.mode # "auto" THEN f
    ELSE [f EXCEPT !.err =
            [type |-> "ImportError",
             msg |-> <<"Couldn't", "import", "any", "of", "mayavi", "vispy",
                       "or", "matplotlib", "3d", "axes">>]]

\* The call of one adapter: it is entered, and either draws or raises.
Enter(f, name, r) ==
    [f EXCEPT !.calls = Append(@, name), !.tk = r.tk, !.err = r.err]

Dispatch_fallback(f, e, pts, doClf, kw) ==
    IF f.err.type # "none" THEN f
    ELSE CASE f.mode = "mayavi" ->
                Enter(f, "mayavi", plot_line_mayavi(f.tk, e, pts, doClf, kw))
           [] f.mode = "vispy" ->
                Enter(f, "vispy", plot_line_vispy(f.tk, e, pts, doClf, kw))
           [] OTHER ->
                Enter(f, "matplotlib", plot_line_matplotlib(f.tk, e, pts, doClf, kw))

\* Lines 58-65: call the adapter mode names, or raise for an unknown mode.
Dispatch(f, e, pts, doClf, kw) ==
    IF f.err.type # "none" THEN f
    ELSE CASE f.mode = "mayavi" ->
                Enter(f, "mayavi", plot_line_mayavi(f.tk, e, pts, doClf, kw))
           [] f.mode = "vispy" ->
                Enter(f, "vispy", plot_line_vispy(f.tk, e, pts, doClf, kw))
           [] f.mode = "matplotlib" ->
                Enter(f, "matplotlib", plot_line_matplotlib(f.tk, e, pts, doClf, kw))
           [] OTHER ->
                [f EXCEPT !.err = [type |-> "Exception",
                                   msg |-> <<"invalid", "toolkit/mode">>]]

\* plot_line(points, mode, clf, **kwargs) as one call.
plot_line(t, e, pts, m, doClf, kw) ==
    Dispatch(
        Raise_no_toolkit(
            Probe_vispy(Probe_matplotlib(Probe_mayavi(Frame(m, t), e), e), e)),
        e, pts, doClf, kw)

(***************************************************************************)
(* Inputs                                                                  *)
(***************************************************************************)
Envs == [mayavi : {"ok", "ImportError"},
         matplotlib : {"ok", "ImportError", "ValueError"},
         vispy : {"ok", "ImportError"}]

Modes == {"auto", "mayavi", "matplotlib", "vispy", "viispy"}

KnownModes == {"mayavi", "matplotlib", "vispy"}

Red == hsv_to_rgb(<<0, 1>>, 1, 1)

\* A square wave of 4 points, and a curve below the origin.
SquareWave == << <<0, 0, 0>>, <<1, 0, 0>>, <<1, 1, 0>>, <<2, 1, 0>> >>

LowCurve == << <<-3, -1, -2>>, <<-2, 0, -1>> >>

PriorObject ==
    [points |-> LowCurve, mus |-> linspace(0, 1, 2), colormap |-> "hsv",
     tube_radius |-> 1, color |-> NoColor]

EmptyToolkits == [may |-> <<>>, mpl |-> <<>>, vispy |-> <<>>]

\* The toolkits before the call: nothing drawn, or an earlier mayavi scene.
InitialToolkits == {EmptyToolkits, [EmptyToolkits EXCEPT !.may = <<PriorObject>>]}

(***************************************************************************)
(* Specification SpecLine: one call of plot_line, statement by statement.  *)
(***************************************************************************)
Idle ==
    /\ pc = "idle" /\ err = NoError /\ points = <<>> /\ mode = "auto"
    /\ clf = TRUE /\ kwargs = [color |-> NoColor, mode |-> "auto"]
    /\ probed = <<>> /\ adapterCalls = <<>>
    /\ lines = <<>> /\ colours = <<>> /\ hues = <<>> /\ ci = 0 /\ si = 0
    /\ lineCalls = <<>> /\ boundary = [arg |-> None, value |-> None]
    /\ crossings = None
    /\ opts = [mark_start |-> FALSE, show |-> TRUE, fig_ax |-> FALSE]
    /\ ret = None

InitLine == Idle /\ env \in Envs /\ tk \in InitialToolkits

CellVars == <<lines, colours, hues, ci, si, lineCalls, boundary>>

ProjVars == <<crossings, opts>>

CurrentFrame ==
    [mode |-> mode, tk |-> tk, probed |-> probed, calls |-> adapterCalls,
     err |-> err]

SetFrame(f) ==
    /\ mode' = f.mode /\ tk' = f.tk /\ probed' = f.probed
    /\ adapterCalls' = f.calls /\ err' = f.err

Call_plot_line ==
    /\ pc = "idle"
    /\ \E pts \in {SquareWave, LowCurve}, m \in Modes, c \in BOOLEAN,
          col \in {NoColor, Red} :
            /\ points' = pts /\ mode' = m /\ clf' = c
            /\ kwargs' = [color |-> col, mode |-> m]
    /\ pc' = "L33"
    /\ UNCHANGED <<env, tk, err, probed, adapterCalls, ret>>
    /\ UNCHANGED CellVars /\ UNCHANGED ProjVars

LineStep(at, f, next) ==
    /\ pc = at
    /\ SetFrame(f)
    /\ pc' = IF f.err.type # "none" THEN "raised" ELSE next
    /\ UNCHANGED <<env, points, clf, kwargs, ret>>
    /\ UNCHANGED CellVars /\ UNCHANGED ProjVars

L33 == LineStep("L33", Probe_mayavi(CurrentFrame, env), "L39")

L39 == LineStep("L39", Probe_matplotlib(CurrentFrame, env), "L48")

L48 == LineStep("L48", Probe_vispy(CurrentFrame, env), "L54")

L54 == LineStep("L54", Raise_no_toolkit(CurrentFrame), "L58")

L58 == LineStep("L58", Dispatch(CurrentFrame, env, points, clf, kwargs), "returned")

NextLine == Call_plot_line \/ L33 \/ L39 \/ L48 \/ L54 \/ L58

SpecLine == InitLine /\ [][NextLine]_vars

(***************************************************************************)
(* plot_cell                                                               *)
(***************************************************************************)
Hues_keep_last(K) == linspace(0, 1, K)

\* Line 160: hues = n.linspace(0, 1, len(lines) + 1)[:-1].
Hues(K) == DropLast(linspace(0, 1, K + 1))

\* Line 161: colours = [hsv_to_rgb(hue, 1, 1) for hue in hues].
Colours(hs) == [i \in DOMAIN hs |-> hsv_to_rgb(hs[i], 1, 1)]

Perms(n) == {f \in [1..n -> 1..n] : \A i, j \in 1..n : f[i] = f[j] => i = j}

\* Line 162: random.shuffle(colours) leaves any reordering of the list.
Shuffled(cs) == {[i \in DOMAIN cs |-> cs[f[i]]] : f \in Perms(Len(cs))}

Cell_call_clf(seg, colour, kw) ==
    [points |-> seg, mode |-> kw.mode, clf |-> TRUE, color |-> colour]

\* Line 165: the arguments of plot_line(segment, clf=False, color=colour,
\* **kwargs); kwargs may carry a mode, which is 'auto' otherwise.
Cell_call(seg, colour, kw) ==
    [points |-> seg, mode |-> kw.mode, clf |-> FALSE, color |-> colour]

\* Line 163: zip(lines, colours) stops at the shorter of the two.
ZipLen(ls, cs) == IF Len(ls) <= Len(cs) THEN Len(ls) ELSE Len(cs)

\* Lines 163-164: the loop position at or after (c, s) that has a segment;
\* <<0, 0>> when the loops are over.
RECURSIVE NextSegment(_, _, _, _)
NextSegment(ls, n, c, s) ==
    IF c > n THEN <<0, 0>>
    ELSE IF s <= Len(ls[c]) THEN <<c, s>>
    ELSE NextSegment(ls, n, c + 1, 1)

Cell_next_segment_first_only(ls, n, c, s) ==
    IF c > n THEN <<0, 0>>
    ELSE IF s <= Len(ls[c]) /\ s = 1 THEN <<c, s>>
    ELSE NextSegment(ls, n, c + 1, 1)

Cell_next_segment(ls, n, c, s) == NextSegment(ls, n, c, s)

\* pyknot2.utils.ensure_shape_tuple: a scalar becomes a 3-tuple of itself.
ensure_shape_tuple(b) ==
    IF b.kind = "scalar" THEN [kind |-> "tuple", val |-> <<b.val, b.val, b.val>>]
    ELSE b

normalize_boundary_swapped(b) ==
    IF b.kind = "None" THEN b
    ELSE LET b1 == IF b.kind = "scalar" THEN ensure_shape_tuple(b) ELSE b
         IN  IF Len(b1.val) = 3
             THEN [kind |-> "tuple",
                   val |-> <<b1.val[1], 0, b1.val[2], 0, b1.val[3], 0>>]
             ELSE b1

\* Lines 167-171: the boundary as a scalar, a 3-tuple or a 6-tuple.
normalize_boundary(b) ==
    IF b.kind = "None" THEN b
    ELSE LET b1 == IF b.kind = "scalar" THEN ensure_shape_tuple(b) ELSE b
         IN  IF Len(b1.val) = 3
             THEN [kind |-> "tuple",
                   val |-> <<0, b1.val[1], 0, b1.val[2], 0, b1.val[3]>>]
             ELSE b1

(***************************************************************************)
(* Inputs of plot_cell                                                     *)
(***************************************************************************)
\* Segment s of curve c: two points, different for every segment.
Segment(c, s) == << <<c, s, 0>>, <<c, s, 1>> >>

\* Every collection of up to MaxCurves curves of up to MaxSegs segments.
LineCollections ==
    UNION {{[c \in 1..K |-> [s \in 1..n[c] |-> Segment(c, s)]] :
                n \in [1..K -> 0..MaxSegs]} : K \in 0..MaxCurves}

Scalar(x) == [kind |-> "scalar", val |-> x]

Tuple(t) == [kind |-> "tuple", val |-> t]

SixTuples == {<<0, 1, 0, 1, 0, 1>>, <<-1, 1, -2, 2, -3, 3>>, <<1, 2, 3, 4, 5, 6>>}

Boundaries ==
    {None} \cup {Scalar(x) : x \in 0..MaxBoundary}
           \cup {Tuple(t) : t \in [1..3 -> 1..MaxBoundary]}
           \cup {Tuple(t) : t \in SixTuples}

CellEnvs == [mayavi : {"ok", "ImportError"},
             matplotlib : {"ok", "ImportError"},
             vispy : {"ok"}]

(***************************************************************************)
(* Specifications SpecCell and SpecBoundary: one call of plot_cell.        *)
(***************************************************************************)
InitCell == Idle /\ env \in CellEnvs /\ tk \in InitialToolkits

LineVars == <<points, mode, probed, adapterCalls>>

Call_plot_cell(lineInputs, boundaryInputs, modeInputs, clfInputs) ==
    /\ pc = "idle"
    /\ \E ls \in lineInputs, b \in boundaryInputs, m \in modeInputs,
          c \in clfInputs :
            /\ lines' = ls
            /\ boundary' = [arg |-> b, value |-> b]
            /\ kwargs' = [color |-> NoColor, mode |-> m]
            /\ clf' = c
    /\ pc' = "C157"
    /\ UNCHANGED <<env, tk, err, colours, hues, ci, si, lineCalls, ret>>
    /\ UNCHANGED LineVars /\ UNCHANGED ProjVars

\* Lines 156-158: import mayavi.mlab and clear its scene.
C157 ==
    /\ pc = "C157"
    /\ IF env.mayavi = "ok"
       THEN tk' = may_clf(tk) /\ err' = err /\ pc' = "C160"
       ELSE tk' = tk /\ err' = ModuleNotFound("mayavi") /\ pc' = "raised"
    /\ UNCHANGED <<env, clf, kwargs, ret>>
    /\ UNCHANGED CellVars /\ UNCHANGED LineVars /\ UNCHANGED ProjVars

\* Lines 160-162: one colour per curve, shuffled.
C160 ==
    /\ pc = "C160"
    /\ hues' = Hues(Len(lines))
    /\ colours' \in Shuffled(Colours(hues'))
    /\ ci' = 1 /\ si' = 1
    /\ pc' = "C163"
    /\ UNCHANGED <<env, tk, err, clf, kwargs, lines, lineCalls, boundary, ret>>
    /\ UNCHANGED LineVars /\ UNCHANGED ProjVars

\* Lines 163-165: the next plot_line call of the two loops, or their end.
C163 ==
    /\ pc = "C163"
    /\ LET at == Cell_next_segment(lines, ZipLen(lines, colours), ci, si)
       IN  IF at = <<0, 0>>
           THEN /\ pc' = "C167"
                /\ UNCHANGED <<tk, err, ci, si, lineCalls>>
           ELSE LET call == Cell_call(lines[at[1]][at[2]], colours[at[1]], kwargs)
                    f == plot_line(tk, env, call.points, call.mode, call.clf,
                                   [color |-> call.color, mode |-> call.mode])
                IN  /\ lineCalls' = Append(lineCalls, call)
                    /\ tk' = f.tk /\ err' = f.err
                    /\ ci' = at[1] /\ si' = at[2] + 1
                    /\ pc' = IF f.err.type # "none" THEN "raised" ELSE "C163"
    /\ UNCHANGED <<env, clf, kwargs, lines, colours, hues, boundary, ret>>
    /\ UNCHANGED LineVars /\ UNCHANGED ProjVars

\* Lines 167-171: the boundary, normalised.
C167 ==
    /\ pc = "C167"
    /\ boundary' = [boundary EXCEPT !.value = normalize_boundary(boundary.arg)]
    /\ pc' = "returned"
    /\ UNCHANGED <<env, tk, err, clf, kwargs, lines, colours, hues, ci, si,
                   lineCalls, ret>>
    /\ UNCHANGED LineVars /\ UNCHANGED ProjVars

CellSteps == C157 \/ C160 \/ C163 \/ C167

NextCell ==
    \/ Call_plot_cell(LineCollections, {None, Scalar(1)},
                      {"auto", "matplotlib", "viispy"}, {TRUE})
    \/ CellSteps

SpecCell == InitCell /\ [][NextCell]_vars

NextBoundary ==
    \/ Call_plot_cell({<<>>, <<<<Segment(1, 1)>>>>}, Boundaries, {"auto"}, BOOLEAN)
    \/ CellSteps

SpecBoundary == InitCell /\ [][NextBoundary]_vars

(***************************************************************************)
(* plot_projection                                                         *)
(***************************************************************************)
List(v) == [kind |-> "list", val |-> v]

\* What plt.subplots() gives: axes with nothing drawn and default limits.
FreshAxes ==
    [artists |-> <<>>, xticks |-> TRUE, yticks |-> TRUE,
     xlim |-> << <<0, 1>>, <<1, 1>> >>, ylim |-> << <<0, 1>>, <<1, 1>> >>]

\* numpy.min / numpy.max of column k of the points.
ColumnMinOf(pts, k) == SetMin({pts[i][k] : i \in DOMAIN pts})

ColumnMaxOf(pts, k) == SetMax({pts[i][k] : i \in DOMAIN pts})

Padded_limits_floor(pts, k) ==
    LET lo == ColumnMinOf(pts, k)
        hi == ColumnMaxOf(pts, k)
        d == (hi - lo) \div 10
    IN  << <<lo - d, 1>>, <<hi + d, 1>> >>

\* Lines 135-141: (min - d, max + d) of column k, with d = (max - min) / 10.
Padded_limits(pts, k) ==
    LET lo == ColumnMinOf(pts, k)
        hi == ColumnMaxOf(pts, k)
        d == <<hi - lo, 10>>
    IN  << <<lo * d[2] - d[1], d[2]>>, <<hi * d[2] + d[1], d[2]>> >>

\* The first two columns of an array: a[:, 0] and a[:, 1].
Columns01(a) == [i \in DOMAIN a |-> <<a[i][1], a[i][2]>>]

Overlay_crossings_unless_None(a, cr) ==
    IF cr.kind = "None" THEN [ax |-> a, err |-> NoError]
    ELSE IF Len(cr.val) = 0
    THEN [ax |-> a, err |-> [type |-> "IndexError",
                             msg |-> <<"too", "many", "indices">>]]
    ELSE [ax |-> [a EXCEPT !.artists = Append(@,
                    [kind |-> "markers", xy |-> Columns01(cr.val),
                     fmt |-> "ro", alpha |-> <<1, 2>>])],
          err |-> NoError]

\* Lines 147-149: markers at the crossings, when there are any.
Overlay_crossings(a, cr) ==
    IF cr.kind # "None" /\ Len(cr.val) # 0
    THEN [ax |-> [a EXCEPT !.artists = Append(@,
                    [kind |-> "markers", xy |-> Columns01(cr.val),
                     fmt |-> "ro", alpha |-> <<1, 2>>])],
          err |-> NoError]
    ELSE [ax |-> a, err |-> NoError]

\* plot_projection(points, crossings, mark_start, fig_ax, show), given the
\* axes it draws on: the caller's, or fresh ones.
plot_projection(t, e, pts, cr, o, given) ==
    IF e.matplotlib = "ImportError"
    THEN [tk |-> t, err |-> ModuleNotFound("matplotlib"), ret |-> None]
    ELSE
    LET a0 == IF o.fig_ax THEN given ELSE FreshAxes
        t1 == IF o.fig_ax THEN t ELSE [t EXCEPT !.mpl = Append(@, NewFigure)]
        a1 == [a0 EXCEPT !.artists = Append(@,
                    [kind |-> "line", xy |-> Columns01(pts), fmt |-> "",
                     alpha |-> <<1, 1>>]),
                 !.xticks = FALSE, !.yticks = FALSE]
        a2 == [a1 EXCEPT !.xlim = Padded_limits(pts, 1),
                         !.ylim = Padded_limits(pts, 2)]
        a3 == IF o.mark_start
              THEN [a2 EXCEPT !.artists = Append(@,
                        [kind |-> "markers", xy |-> << <<pts[1][1], pts[1][2]>> >>,
                         fmt |-> "o-blue", alpha |-> <<1, 1>>])]
              ELSE a2
        r == Overlay_crossings(a3, cr)
        t2 == IF o.show /\ ~o.fig_ax
              THEN [t1 EXCEPT !.mpl[Len(t1.mpl)].shown = TRUE] ELSE t1
    IN  IF r.err.type # "none"
        THEN [tk |-> t1, err |-> r.err, ret |-> None]
        ELSE [tk |-> t2, err |-> NoError,
              ret |-> [kind |-> "fig_ax", own |-> ~o.fig_ax, shown |-> o.show,
                       ax |-> r.ax]]

(***************************************************************************)
(* Inputs of plot_projection                                               *)
(***************************************************************************)
ProjCoords == {-5, 0, 10}

\* Points whose third coordinate the projection must not look at.
ProjPoints == {<<x, y, 20>> : x \in ProjCoords, y \in ProjCoords}

CrossingPositions == {<<0, 0>>, <<2, 3>>}

CrossingInputs == {None} \cup {List(v) : v \in SeqsUpTo(CrossingPositions, 0, MaxCross)}

\* Axes a caller hands in, with a line already drawn on them.
GivenAxes ==
    [FreshAxes EXCEPT !.artists = << [kind |-> "line", xy |-> << <<1, 1>>, <<2, 2>> >>,
                                      fmt |-> "", alpha |-> <<1, 1>>] >>]

(***************************************************************************)
(* Specification SpecProj: one call of plot_projection.                    *)
(***************************************************************************)
InitProj ==
    /\ Idle /\ tk = EmptyToolkits
    /\ env \in [mayavi : {"ok"}, matplotlib : {"ok", "ImportError"}, vispy : {"ok"}]

Call_plot_projection ==
    /\ pc = "idle"
    /\ points' \in SeqsUpTo(ProjPoints, 1, MaxProjPts)
    /\ crossings' \in CrossingInputs
    /\ opts' \in [mark_start : BOOLEAN, show : BOOLEAN, fig_ax : BOOLEAN]
    /\ pc' = "P125"
    /\ UNCHANGED <<env, tk, err, mode, clf, kwargs, probed, adapterCalls, ret>>
    /\ UNCHANGED CellVars

P125 ==
    /\ pc = "P125"
    /\ LET r == plot_projection(tk, env, points, crossings, opts, GivenAxes)
       IN  /\ tk' = r.tk /\ err' = r.err /\ ret' = r.ret
           /\ pc' = IF r.err.type # "none" THEN "raised" ELSE "returned"
    /\ UNCHANGED <<env, points, mode, clf, kwargs, probed, adapterCalls>>
    /\ UNCHANGED CellVars /\ UNCHANGED ProjVars

NextProj == Call_plot_projection \/ P125

SpecProj == InitProj /\ [][NextProj]_vars

(***************************************************************************)
(* Specification SpecCamera: one call of the vispy adapter.                *)
(***************************************************************************)
Coords == (-MaxCoord)..MaxCoord

CameraPoints == SeqsUpTo(Coords \X Coords \X Coords, 1, MaxPts)

InitCamera ==
    /\ Idle /\ tk = EmptyToolkits
    /\ env \in [mayavi : {"ok"}, matplotlib : {"ok"}, vispy : {"ok", "ImportError"}]

Call_plot_line_vispy ==
    /\ pc = "idle"
    /\ points' \in CameraPoints
    /\ pc' = "L88"
    /\ UNCHANGED <<env, tk, err, mode, clf, kwargs, probed, adapterCalls, ret>>
    /\ UNCHANGED CellVars /\ UNCHANGED ProjVars

L88 ==
    /\ pc = "L88"
    /\ LET r == plot_line_vispy(tk, env, points, clf, kwargs)
       IN  /\ tk' = r.tk /\ err' = r.err
           /\ adapterCalls' = Append(adapterCalls, "vispy")
           /\ pc' = IF r.err.type # "none" THEN "raised" ELSE "returned"
           /\ ret' = IF r.err.type # "none" THEN None
                     ELSE [kind |-> "canvas", canvas |-> r.tk.vispy[Len(r.tk.vispy)]]
    /\ UNCHANGED <<env, points, mode, clf, kwargs, probed>>
    /\ UNCHANGED CellVars /\ UNCHANGED ProjVars

NextCamera == Call_plot_line_vispy \/ L88

SpecCamera == InitCamera /\ [][NextCamera]_vars

(***************************************************************************)
(* Claims about plot_line (specification SpecLine)                         *)
(***************************************************************************)
ProbeOrder == <<"mayavi", "matplotlib", "vispy">>

IsPrefix(a, b) == Len(a) <= Len(b) /\ \A i \in DOMAIN a : a[i] = b[i]

Terminal == pc \in {"returned", "raised"}

AutoCall == pc # "idle" /\ kwargs.mode = "auto"

AllProbesFail == \A name \in Range(ProbeOrder) : env[name] # "ok"

\* C1: with mode='auto' the toolkits are probed in the order mayavi,
\* matplotlib, vispy; nothing is probed after the first probe that succeeds,
\* only that toolkit's adapter is entered, and it is the one that renders.
\* When mayavi fails and matplotlib succeeds, the matplotlib adapter draws
\* the points and vispy is never probed nor drawn with.
C1_FirstUsableToolkitRenders ==
    AutoCall =>
        /\ IsPrefix(probed, ProbeOrder)
        /\ \A i \in DOMAIN probed : env[probed[i]] = "ok" => Len(probed) = i
        /\ \A i \in DOMAIN adapterCalls :
                /\ probed # <<>>
                /\ adapterCalls[i] = probed[Len(probed)]
                /\ env[adapterCalls[i]] = "ok"
        /\ Len(adapterCalls) <= 1
        /\ (pc = "returned") => (Len(adapterCalls) = 1 /\ err = NoError)
        /\ (env.mayavi # "ok" /\ env.matplotlib = "ok") =>
                /\ "vispy" \notin Range(probed)
                /\ "vispy" \notin Range(adapterCalls)
                /\ tk.vispy = <<>>
                /\ Terminal =>
                      /\ pc = "returned"
                      /\ adapterCalls = <<"matplotlib">>
                      /\ tk.mpl[Len(tk.mpl)].lines = <<points>>

C1_Witness ==
    /\ pc = "returned" /\ kwargs.mode = "auto" /\ points = SquareWave
    /\ env.mayavi = "ImportError" /\ env.matplotlib = "ok" /\ env.vispy = "ok"
    /\ probed = <<"mayavi", "matplotlib">>
    /\ adapterCalls = <<"matplotlib">>

\* C2: with mode='auto' and all three probes failing, the call raises the
\* ImportError whose message names mayavi, matplotlib and vispy; no adapter
\* is entered, nothing is drawn, and each toolkit is probed exactly once.
C2_NoToolkitRaises ==
    (AutoCall /\ AllProbesFail) =>
        /\ adapterCalls = <<>>
        /\ tk.vispy = <<>>
        /\ \A i \in DOMAIN tk.mpl : tk.mpl[i].lines = <<>>
        /\ pc \notin {"L58", "returned"}
        /\ IsPrefix(probed, ProbeOrder)
        /\ (pc = "raised") =>
                /\ err.type = "ImportError"
                /\ Range(ProbeOrder) \subseteq Range(err.msg)
                /\ probed = ProbeOrder

C2_Witness ==
    /\ pc = "raised" /\ kwargs.mode = "auto" /\ AllProbesFail
    /\ err.type = "ImportError" /\ probed = ProbeOrder

\* C3: a mode that is neither 'auto' nor a known backend makes the call
\* raise an error of another kind than the one raised when auto-probing
\* finds no toolkit; no toolkit is probed and no adapter is entered.
C3_UnknownModeRaises ==
    (pc # "idle" /\ kwargs.mode \notin KnownModes \cup {"auto"}) =>
        /\ probed = <<>>
        /\ adapterCalls = <<>>
        /\ tk \in InitialToolkits
        /\ pc # "returned"
        /\ (pc = "raised") =>
                /\ err.type = "Exception"
                /\ err.type # Raise_no_toolkit(Frame("auto", tk)).err.type

C3_Witness ==
    /\ pc = "raised" /\ kwargs.mode = "viispy" /\ err.type = "Exception"
    /\ probed = <<>> /\ adapterCalls = <<>>

(***************************************************************************)
(* Claims about plot_cell (specifications SpecCell and SpecBoundary)       *)
(***************************************************************************)
RECURSIVE CallsOfCurve(_, _, _)
CallsOfCurve(curve, colour, s) ==
    IF s = 0 THEN <<>>
    ELSE Append(CallsOfCurve(curve, colour, s - 1),
                [points |-> curve[s], color |-> colour])

\* One entry per segment, in curve order then segment order, each with the
\* colour at the curve's position in cs.
RECURSIVE ExpectedCalls(_, _, _)
ExpectedCalls(ls, cs, c) ==
    IF c = 0 THEN <<>>
    ELSE ExpectedCalls(ls, cs, c - 1) \o CallsOfCurve(ls[c], cs[c], Len(ls[c]))

RECURSIVE SegmentCount(_, _)
SegmentCount(ls, c) ==
    IF c = 0 THEN 0 ELSE Len(ls[c]) + SegmentCount(ls, c - 1)

Coloured == pc \in {"C163", "C167", "returned"} \/ (pc = "raised" /\ colours # <<>>)

LoopsOver == pc \in {"C167", "returned"}

\* C4: plot_cell calls plot_line once per segment, in curve order then
\* segment order, each call with the colour assigned to the segment's curve;
\* when the loops are over the number of calls is the sum of the curves'
\* segment counts.
C4_OneCallPerSegment ==
    /\ Coloured =>
        /\ Len(colours) = Len(lines)
        /\ LET want == ExpectedCalls(lines, colours, Len(lines))
           IN  /\ Len(lineCalls) <= Len(want)
               /\ \A i \in DOMAIN lineCalls :
                    /\ lineCalls[i].points = want[i].points
                    /\ lineCalls[i].color = want[i].color
               /\ LoopsOver => Len(lineCalls) = Len(want)
    /\ LoopsOver => Len(lineCalls) = SegmentCount(lines, Len(lines))

C4_Witness ==
    /\ pc = "returned" /\ Len(lines) = 3
    /\ \A c \in DOMAIN lines : Len(lines[c]) = 2
    /\ Len(lineCalls) = 6
    /\ lineCalls[3].color = lineCalls[4].color
    /\ lineCalls[2].color # lineCalls[3].color

\* The point sequences the toolkits currently show.
Shown(t) ==
    {t.may[i].points : i \in DOMAIN t.may}
        \cup UNION {Range(t.mpl[i].lines) : i \in DOMAIN t.mpl}
        \cup {t.vispy[i].points : i \in DOMAIN t.vispy}

\* C5: no plot_line call of a composition after the first asks for the scene
\* to be cleared, so no segment drawn is erased by a later call: every
\* segment drawn so far is still shown, and with the default toolkit the
\* mayavi scene holds exactly the segments drawn, in the order drawn.
C5_LaterCallsDoNotClear ==
    /\ \A i \in DOMAIN lineCalls : i > 1 => lineCalls[i].clf = FALSE
    /\ LET drawn == IF pc = "raised" THEN Len(lineCalls) - 1 ELSE Len(lineCalls)
       IN  /\ \A i \in 1..drawn : lineCalls[i].points \in Shown(tk)
           /\ (Coloured /\ kwargs.mode = "auto") =>
                /\ Len(tk.may) = drawn
                /\ \A i \in 1..drawn : tk.may[i].points = lineCalls[i].points
                /\ \A i \in 1..drawn : tk.may[i].color = lineCalls[i].color

C5_Witness ==
    /\ pc = "returned" /\ kwargs.mode = "auto"
    /\ Len(lineCalls) = 6 /\ Len(tk.may) = 6
    /\ tk.may[1].points = Segment(1, 1) /\ tk.may[6].points = Segment(3, 2)

\* colorsys.rgb_to_hsv's hue, for three fractions over one denominator.
HueOf(rgb) ==
    LET r == rgb[1][1]
        g == rgb[2][1]
        b == rgb[3][1]
        maxc == SetMax({r, g, b})
        minc == SetMin({r, g, b})
        D == maxc - minc
    IN  IF D = 0 THEN <<0, 1>>
        ELSE IF r = maxc THEN <<(g - b) % (6 * D), 6 * D>>
        ELSE IF g = maxc THEN <<(2 * D + b - r) % (6 * D), 6 * D>>
        ELSE <<(4 * D + r - g) % (6 * D), 6 * D>>

FracEq(a, b) == a[1] * b[2] = b[1] * a[2]

\* |a - b| >= 1 / n, for fractions a and b with positive denominators.
FracApart(a, b, n) == Abs(a[1] * b[2] - b[1] * a[2]) * n >= a[2] * b[2]

\* C6: for K curves there are K colours; their hues are i/K for i = 0..K-1,
\* pairwise distinct and at least 1/(K+1) apart; the shuffle only permutes
\* which curve gets which of these colours.
C6_EvenlySpacedHues ==
    Coloured =>
        LET K == Len(lines)
        IN  /\ Len(hues) = K /\ Len(colours) = K
            /\ \A i \in 1..K : FracEq(hues[i], <<i - 1, K>>)
            /\ \A j \in 1..K : \E i \in 1..K :
                 /\ FracEq(HueOf(colours[i]), <<j - 1, K>>)
                 /\ colours[i] = hsv_to_rgb(<<j - 1, K>>, 1, 1)
            /\ \A i, j \in 1..K : i # j =>
                 /\ colours[i] # colours[j]
                 /\ ~FracEq(HueOf(colours[i]), HueOf(colours[j]))
                 /\ FracApart(HueOf(colours[i]), HueOf(colours[j]), K + 1)

C6_Witness ==
    /\ pc = "returned" /\ Len(lines) = 3 /\ Len(colours) = 3
    /\ FracEq(HueOf(colours[1]), <<2, 3>>)
    /\ FracEq(HueOf(colours[2]), <<0, 3>>)
    /\ FracEq(HueOf(colours[3]), <<1, 3>>)

\* C7: the boundary is normalised to a 6-tuple: a scalar s to
\* (0, s, 0, s, 0, s), a 3-tuple (a, b, c) to (0, a, 0, b, 0, c), and a
\* 6-tuple to itself.
C7_BoundaryNormalised ==
    (pc = "returned" /\ boundary.arg # None) =>
        LET a == boundary.arg
            v == boundary.value
        IN  /\ v.kind = "tuple" /\ Len(v.val) = 6
            /\ a.kind = "scalar" => v.val = <<0, a.val, 0, a.val, 0, a.val>>
            /\ (a.kind = "tuple" /\ Len(a.val) = 3) =>
                    v.val = <<0, a.val[1], 0, a.val[2], 0, a.val[3]>>
            /\ (a.kind = "tuple" /\ Len(a.val) = 6) => v = a

C7_Witness ==
    /\ pc = "returned"
    /\ boundary.arg = Scalar(2)
    /\ boundary.value = Tuple(<<0, 2, 0, 2, 0, 2>>)

(***************************************************************************)
(* Claims about plot_projection (specification SpecProj)                   *)
(***************************************************************************)
\* lo - (hi - lo) / 10 and hi + (hi - lo) / 10, in tenths.
TenthsBelow(lo, hi) == <<10 * lo - (hi - lo), 10>>

TenthsAbove(lo, hi) == <<10 * hi + (hi - lo), 10>>

AxisClaim(lim, k) ==
    LET vals == {points[i][k] : i \in DOMAIN points}
        lo == SetMin(vals)
        hi == SetMax(vals)
    IN  /\ FracEq(lim[1], TenthsBelow(lo, hi))
        /\ FracEq(lim[2], TenthsAbove(lo, hi))
        /\ (lo = 0 /\ hi = 10) =>
                (FracEq(lim[1], <<-1, 1>>) /\ FracEq(lim[2], <<11, 1>>))
        /\ (lo = hi) => (FracEq(lim[1], <<lo, 1>>) /\ FracEq(lim[2], <<lo, 1>>))

\* C8: plot_projection sets the x and the y limits to
\* (min - r/10, max + r/10), r = max - min of that coordinate over all
\* points: (-1, 11) for the range [0, 10], (min, min) for a zero range.
C8_PaddedLimits ==
    (pc = "returned" /\ ret.kind = "fig_ax") =>
        /\ AxisClaim(ret.ax.xlim, 1)
        /\ AxisClaim(ret.ax.ylim, 2)

C8_Witness ==
    /\ pc = "returned" /\ ret.kind = "fig_ax"
    /\ {points[i][1] : i \in DOMAIN points} = {0, 10}
    /\ {points[i][2] : i \in DOMAIN points} = {-5}
    /\ ret.ax.xlim = << <<-10, 10>>, <<110, 10>> >>
    /\ ret.ax.ylim = << <<-50, 10>>, <<-50, 10>> >>

CrossingMarkers(a) ==
    {i \in DOMAIN a.artists : a.artists[i].kind = "markers" /\ a.artists[i].fmt = "ro"}

\* C9: crossing markers are drawn exactly when crossings is given and not
\* empty, one marker per crossing; crossings=[] draws no crossing marker,
\* does not raise, and sets the limits and returns the handles as
\* crossings=None does.
C9_CrossingMarkers ==
    (pc \in {"returned", "raised"} /\ env.matplotlib = "ok") =>
        /\ pc = "returned" /\ err = NoError /\ ret.kind = "fig_ax"
        /\ IF crossings # None /\ Len(crossings.val) > 0
           THEN /\ Cardinality(CrossingMarkers(ret.ax)) = 1
                /\ \A i \in CrossingMarkers(ret.ax) :
                     /\ i = Len(ret.ax.artists)
                     /\ ret.ax.artists[i].xy = crossings.val
           ELSE CrossingMarkers(ret.ax) = {}
        /\ (crossings = List(<<>>)) =>
                /\ ret = plot_projection(EmptyToolkits, env, points, None, opts,
                                         GivenAxes).ret
                /\ AxisClaim(ret.ax.xlim, 1) /\ AxisClaim(ret.ax.ylim, 2)

C9_Witness ==
    /\ pc = "returned" /\ crossings = List(<<>>) /\ ret.kind = "fig_ax"
    /\ CrossingMarkers(ret.ax) = {}
    /\ Len(points) = 2 /\ points[1][1] = 0 /\ points[2][1] = 10

(***************************************************************************)
(* Claims about plot_line_vispy (specification SpecCamera)                 *)
(***************************************************************************)
\* 1.5 times the largest absolute value among all coordinates.
CameraDistanceAbs(pts) ==
    <<3 * SetMax({Abs(pts[i][k]) : i \in DOMAIN pts, k \in 1..3}), 2>>

\* C10: the camera distance of the vispy adapter is 1.5 times the largest
\* absolute coordinate of the points, also when the coordinate of largest
\* magnitude is negative.
C10_CameraDistanceAbs ==
    (pc = "returned" /\ ret.kind = "canvas") =>
        FracEq(ret.canvas.distance, CameraDistanceAbs(points))

====
